---- MODULE Spec2Model ----
(***************************************************************************)
(* Credit ledger and payment settlement core of the backend:              *)
(*   crud/credit_transaction.py, crud/user_profile.py,                    *)
(*   crud/payment_order.py, api/v1/payment.py, core/scheduler.py,         *)
(*   services/image_generation.py, services/product_service.py.           *)
(*                                                                         *)
(* The database is the committed state (orders, profiles, ledger, tasks). *)
(* Every request runs in its own SQLAlchemy session: what a session has   *)
(* loaded is a private snapshot (the identity map keeps the attribute     *)
(* values of the first load), what it has changed stays private until its *)
(* commit, and a commit writes only the attributes whose value differs    *)
(* from the loaded one.  The steps of a request are its database reads    *)
(* and commits; between two of them any other request may run.            *)
(***************************************************************************)
EXTENDS Integers, Sequences, FiniteSets, TLC

\* ---------------------------------------------------------------- bounds
MaxOrders == 2
MaxLedger == 3
MaxTime == 6
MaxTasks == 1
MaxDays == 60

\* ------------------------------------------------------ program constants
PENDING == 0
SUCCESS == 1
CLOSED == 2
FiveMinutes == 5
DefaultCredits == 0

\* minutes that pass in one step of the clock
TickStep == 3

Users == {1, 2}
Handlers == {1, 2}
Creators == {1, 2}
OrderIds == 1..MaxOrders
TaskIds == 1..MaxTasks

NoRow == [row |-> FALSE]
None == 0

MERCHANT_KEY == "key"
OtherKey == "other"

\* ------------------------------------------------------- product catalog
\* the products the orders of the model are created for; credits and the
\* presence of a membership entry as in PRODUCT_CONFIG, price in cents
Products == {"credits_150", "credits_1200"}

NoMembership == [level |-> "", days |-> 0]

PRODUCT_CONFIG ==
  [p \in Products |->
     IF p = "credits_150"
       THEN [price |-> 290, credits |-> 150, membership |-> NoMembership]
       ELSE [price |-> 1890, credits |-> 1200,
             membership |-> [level |-> "advanced", days |-> 30]]]

\* credits of an image-generation model (model_config.get("credits", 0))
ModelCredits == {100}

\* ------------------------------------------------------------- variables
VARIABLES
  orders,     \* payment_orders table: [OrderIds -> row or NoRow]
  nextId,     \* auto-increment of payment_orders.id
  profiles,   \* user_profiles table: [Users -> row or NoRow]
  ledger,     \* credit_transactions table, in insertion order
  grants,     \* orders for which a membership change has been written
  tasks,      \* image_generation_tasks table
  now,        \* wall clock, minutes
  notify,     \* payment_notify requests: [Handlers -> session record]
  creator,    \* create_payment_order requests
  cancel,     \* the cancel_payment_order request
  sweep,      \* the delete_pending_orders_task run
  debit,      \* the create_task_with_transaction request
  grant,      \* the last upgrade_membership call and what it found
  signing,    \* a parameter dict, its signature and its verification
  admin       \* the update_user_assets request last observed: its input,
              \* its response and the audit row it committed

vars == <<orders, nextId, profiles, ledger, grants, tasks, now,
          notify, creator, cancel, sweep, debit, grant, signing, admin>>

db == <<orders, nextId, profiles, ledger, grants, tasks>>

\* ------------------------------------------------------------- helpers
RECURSIVE SumAmounts(_, _)
SumAmounts(s, u) ==
  IF s = <<>> THEN 0
  ELSE (IF s[1].user_id = u THEN s[1].amount ELSE 0) + SumAmounts(Tail(s), u)

EntriesOf(u) == SelectSeq(ledger, LAMBDA t : t.user_id = u)

RechargesOf(o) ==
  {i \in 1..Len(ledger) : ledger[i].source = "recharge" /\ ledger[i].source_id = o}

IsPending(o) == orders[o] # NoRow /\ orders[o].status = PENDING

CreditTransaction(u, amount, balance_after, source, source_id) ==
  [user_id |-> u, amount |-> amount, balance_after |-> balance_after,
   source |-> source, source_id |-> source_id]

\* get_user_profile_or_create: the default profile
DefaultProfile ==
  [row |-> TRUE, credits |-> DefaultCredits, membership_type |-> 0,
   membership_expires_at |-> None]


\* ------------------------------------------------------------ signature
\* The parameters of a callback: the set of parameter names present and the
\* values of the ones the handler reads.  The MD5 digest is taken as
\* injective: the digest of a string under a key is the pair itself.
RequiredParams ==
  {"pid", "trade_no", "out_trade_no", "type", "name", "money",
   "trade_status", "sign", "sign_type"}

NoSign == [str |-> <<>>, key |-> ""]

generate_md5_sign(params, merchant_key) ==
  [str |-> [k \in (params.keys \ {"sign", "sign_type"}) \cap
                  {"out_trade_no", "money", "trade_status"} |->
              IF k = "out_trade_no" THEN params.out_trade_no
              ELSE IF k = "money" THEN params.money
              ELSE IF params.trade_status = "TRADE_SUCCESS" THEN 1 ELSE 0],
   key |-> merchant_key]

\* a signature check that accepts every callback
verify_zpay_callback_accepting(params, merchant_key) == TRUE

verify_zpay_callback(params, merchant_key) ==
  LET received_sign == IF "sign" \in params.keys THEN params.sign ELSE NoSign
  IN  /\ received_sign # NoSign
      /\ received_sign = generate_md5_sign(params, merchant_key)

\* round(float(x), 2) of an amount given in thousandths, result in cents; the
\* amounts of the model are no exact halves of a cent
RoundCents(mills) == (mills + 5) \div 10

\* float(order.money) of a DECIMAL(10, 2) column held in cents
OrderMills(cents) == cents * 10

\* an amount comparison that drops the cents instead of rounding to them
AmountMatches_truncated(callback_money, order_money) ==
  callback_money \div 1000 = OrderMills(order_money) \div 1000

\* payment_notify, line 498: the amounts agree once rounded to cents
AmountMatches(callback_money, order_money) ==
  RoundCents(callback_money) = RoundCents(OrderMills(order_money))

\* a trade status check that takes every status for the success sentinel
TradeSucceeded_any(trade_status) == TRUE

\* payment_notify, lines 503-504: the trade status is the success sentinel
TradeSucceeded(trade_status) == trade_status = "TRADE_SUCCESS"

\* ------------------------------------------- signature, character by character
\* generate_md5_sign and verify_zpay_callback on parameter dicts whose values
\* are strings of characters.  A dict is the sequence of its items in
\* insertion order; a value is a string (kind "str", its characters in
\* text), None, or the hexadecimal digest of the string in text (kind "hex",
\* in lower or in upper case; a digest has a letter in it).  MD5 is taken
\* as injective.
MaxParams == 3

Str(text) == [kind |-> "str", text |-> text, upper |-> FALSE]

NoneValue == [kind |-> "none", text |-> <<>>, upper |-> FALSE]

\* hashlib.md5(text.encode('utf-8')).hexdigest()
HexDigest(text) == [kind |-> "hex", text |-> text, upper |-> FALSE]

\* str.lower() and str.upper(); the plain strings of the model have no letter
\* in upper case
lower(s) == [s EXCEPT !.upper = FALSE]

upper(s) == IF s.kind = "hex" THEN [s EXCEPT !.upper = TRUE] ELSE s

\* the characters of the parameter names and of the secrets
Chars(name) ==
  CASE name = "a" -> <<"a">>
    [] name = "b" -> <<"b">>
    [] name = "sign" -> <<"s", "i", "g", "n">>
    [] name = "sign_type" -> <<"s", "i", "g", "n", "_", "t", "y", "p", "e">>
    [] name = "key" -> <<"k", "e", "y">>
    [] name = "other" -> <<"o", "t", "h", "e", "r">>

\* the characters of the model in ASCII order
Alphabet ==
  <<"&", "1", "2", "=", "_", "a", "b", "e", "g", "h", "i", "k", "n", "o", "p",
    "r", "s", "t", "y">>

Ord(c) == CHOOSE i \in 1..Len(Alphabet) : Alphabet[i] = c

\* s < t for Python strings
RECURSIVE StrLess(_, _)
StrLess(s, t) ==
  IF t = <<>> THEN FALSE
  ELSE IF s = <<>> THEN TRUE
  ELSE IF s[1] = t[1] THEN StrLess(Tail(s), Tail(t))
  ELSE Ord(s[1]) < Ord(t[1])

\* params[k] = v, del params[k] and params.get(k, default) of a dict
SetItem(params, k, v) ==
  IF \E i \in 1..Len(params) : params[i].key = k
    THEN [i \in 1..Len(params) |->
            IF params[i].key = k THEN [key |-> k, value |-> v] ELSE params[i]]
    ELSE Append(params, [key |-> k, value |-> v])

DelItem(params, k) == SelectSeq(params, LAMBDA e : e.key # k)

Get(params, k, default) ==
  IF \E i \in 1..Len(params) : params[i].key = k
    THEN params[CHOOSE i \in 1..Len(params) : params[i].key = k].value
    ELSE default

\* a filter that keeps the empty values
filtered_params_keeping_empty(params) ==
  SelectSeq(params, LAMBDA e : e.key \notin {"sign", "sign_type"})

\* generate_md5_sign, lines 40-43
filtered_params(params) ==
  SelectSeq(params, LAMBDA e : /\ e.key \notin {"sign", "sign_type"}
                                /\ e.value # NoneValue
                                /\ e.value # Str(<<>>))

\* items left in insertion order
sorted_params_unsorted(items) == items

\* generate_md5_sign, line 46: sorted(items, key=lambda x: x[0])
RECURSIVE sorted_params(_)
sorted_params(items) ==
  IF items = <<>> THEN <<>>
  ELSE LET rest == sorted_params(Tail(items))
           e == items[1]
           before == SelectSeq(rest, LAMBDA x : StrLess(Chars(x.key), Chars(e.key)))
           after == SelectSeq(rest, LAMBDA x : ~StrLess(Chars(x.key), Chars(e.key)))
       IN  before \o <<e>> \o after

\* generate_md5_sign, line 49: '&'.join(f"{key}={value}" ...)
RECURSIVE param_str(_)
param_str(items) ==
  IF items = <<>> THEN <<>>
  ELSE Chars(items[1].key) \o <<"=">> \o items[1].value.text
         \o (IF Len(items) > 1 THEN <<"&">> \o param_str(Tail(items)) ELSE <<>>)

\* generate_md5_sign, line 53
sign_str(params, merchant_key) ==
  param_str(sorted_params(filtered_params(params))) \o Chars(merchant_key)

\* generate_md5_sign, lines 56-58: what the function returns
md5_hash(params, merchant_key) == lower(HexDigest(sign_str(params, merchant_key)))

\* a verification that compares the signatures as they are
calculated_sign_matches_exactly(received_sign, params, merchant_key) ==
  received_sign = md5_hash(params, merchant_key)

\* verify_zpay_callback, lines 153-156
calculated_sign_matches(received_sign, params, merchant_key) ==
  lower(received_sign) = lower(md5_hash(params, merchant_key))

\* verify_zpay_callback, lines 148-156
received_sign_verifies(params, merchant_key) ==
  LET received_sign == Get(params, "sign", Str(<<>>))
  IN  /\ received_sign # NoneValue
      /\ received_sign # Str(<<>>)
      /\ calculated_sign_matches(received_sign, params, merchant_key)

\* nothing has been signed yet
NoSigned == [pairs |-> {}, key |-> "", sign |-> NoneValue]

\* the (key, value) pairs of a dict that are signed: the key is neither
\* "sign" nor "sign_type" and the value is not empty
SignedPairs(params) ==
  {<<params[i].key, params[i].value>> :
     i \in {j \in 1..Len(params) :
              /\ params[j].key \notin {"sign", "sign_type"}
              /\ params[j].value \notin {NoneValue, Str(<<>>)}}}

\* the state of a signing: the dict, what generate_md5_sign returns for it,
\* what verify_zpay_callback returns for it under the merchant key, and
\* what was signed when a signature was last put in the dict
Signing(params, signed) ==
  [params |-> params,
   calculated_sign |-> md5_hash(params, MERCHANT_KEY),
   verified |-> received_sign_verifies(params, MERCHANT_KEY),
   signed |-> signed]

\* the values a parameter of the model takes
ParamValues(k) ==
  IF k = "a" THEN {Str(<<>>), NoneValue, Str(<<"1">>), Str(<<"1", "&", "b", "=", "2">>)}
  ELSE IF k = "b" THEN {Str(<<>>), Str(<<"2">>)}
  ELSE IF k = "sign_type" THEN {Str(<<"1">>)}
  ELSE {Str(<<>>)}

ParamNames == {"a", "b", "sign", "sign_type"}

\* the dict gets an item, or one of its items gets another value
SetParam(k, v) ==
  /\ SetItem(signing.params, k, v) # signing.params
  /\ Len(SetItem(signing.params, k, v)) <= MaxParams
  /\ signing' = Signing(SetItem(signing.params, k, v), signing.signed)
  /\ UNCHANGED <<db, now, notify, creator, cancel, sweep, debit, grant, admin>>

\* an item is removed
DelParam(k) ==
  /\ DelItem(signing.params, k) # signing.params
  /\ signing' = Signing(DelItem(signing.params, k), signing.signed)
  /\ UNCHANGED <<db, now, notify, creator, cancel, sweep, debit, grant, admin>>

\* the same items in another insertion order
Reorder ==
  /\ \E f \in [1..Len(signing.params) -> 1..Len(signing.params)] :
       /\ \A i, j \in DOMAIN f : f[i] = f[j] => i = j
       /\ \E i \in DOMAIN f : f[i] # i
       /\ signing' = Signing([i \in DOMAIN f |-> signing.params[f[i]]],
                           signing.signed)
  /\ UNCHANGED <<db, now, notify, creator, cancel, sweep, debit, grant, admin>>

\* call_zpay_api, lines 83-84, and the provider's side of a callback: the
\* signature under a key is put in the dict, in lower or in upper case
AttachSign(key, up) ==
  /\ LET sign == md5_hash(signing.params, key)
         received_sign == IF up THEN upper(sign) ELSE sign
         params == SetItem(signing.params, "sign", received_sign)
     IN  /\ params # signing.params
         /\ Len(params) <= MaxParams
         /\ signing' = Signing(params,
                               [pairs |-> SignedPairs(signing.params),
                                key |-> key, sign |-> received_sign])
  /\ UNCHANGED <<db, now, notify, creator, cancel, sweep, debit, grant, admin>>

\* ------------------------------------------------------- payment_notify
NoRequest ==
  [keys |-> {}, out_trade_no |-> 0, money |-> 0, trade_status |-> "",
   sign |-> NoSign]

IdleNotify ==
  [pc |-> "idle", req |-> NoRequest, ord |-> NoRow, new_balance |-> 0,
   mid |-> FALSE, ack |-> "none", out |-> "none"]

\* a handler without the outer except of lines 602-605: an error raised by
\* the settlement leaves the request without a "success" or "fail" body
Respond_unhandled(h, ack, out) ==
  notify' = [notify EXCEPT ![h] =
               [IdleNotify EXCEPT !.req = notify[h].req,
                                  !.ack = IF out = "error" THEN "none" ELSE ack,
                                  !.out = out]]

\* lines 471-605: return Response(content=ack); the request is over
Respond(h, ack, out) ==
  notify' = [notify EXCEPT ![h] =
               [IdleNotify EXCEPT !.req = notify[h].req, !.ack = ack, !.out = out]]

\* update_payment_order: the columns a session that loaded the order as
\* `loaded` writes for `update_data`; setting an attribute to the value it
\* was loaded with writes nothing
StatusChanged(loaded, update_data) ==
  "status" \in DOMAIN update_data /\ update_data.status # loaded.status

\* an update that writes the columns and leaves unique_pending_flag alone
update_payment_order_keeping_flag(row, loaded, update_data) ==
  LET set(f) == f \in DOMAIN update_data /\ update_data[f] # loaded[f]
  IN  [row EXCEPT
         !.status = IF set("status") THEN update_data.status ELSE @,
         !.trade_no = IF set("trade_no") THEN update_data.trade_no ELSE @,
         !.trade_status =
            IF set("trade_status") THEN update_data.trade_status ELSE @]

update_payment_order(row, loaded, update_data) ==
  LET set(f) == f \in DOMAIN update_data /\ update_data[f] # loaded[f]
  IN  [row EXCEPT
         !.status = IF set("status") THEN update_data.status ELSE @,
         !.trade_no = IF set("trade_no") THEN update_data.trade_no ELSE @,
         !.trade_status =
            IF set("trade_status") THEN update_data.trade_status ELSE @,
         !.unique_pending_flag =
            IF StatusChanged(loaded, update_data)
              THEN (IF update_data.status = PENDING THEN 0 ELSE loaded.id)
              ELSE @]

SuccessUpdate ==
  [trade_no |-> 1, trade_status |-> "TRADE_SUCCESS", status |-> SUCCESS]

\* update_user_role(db, user_id, role, commit=True): a call with `npos`
\* positional arguments and the keyword arguments `kw` binds unless the
\* fourth positional argument and the keyword both give `commit`
BindsUpdateUserRole(npos, kw) == ~(npos > 3 /\ "commit" \in kw)

\* validate_user_role: the role, in upper case, is a member of UserRole
validate_user_role(role) == role \in {"user", "admin", "super_admin"}

\* update_user_role writes the membership of the profile only for a valid
\* role equal to "premium"; an invalid role raises inside its try and the
\* function returns False
update_user_role(npos, kw, role) ==
  BindsUpdateUserRole(npos, kw) /\ validate_user_role(role) /\ role = "premium"

\* the settlements in progress; a settlement starts only while the ledger of
\* the model has room for its entry
Settling == Cardinality({h \in Handlers : notify[h].pc # "idle"})

\* lines 462-506: required parameters, signature, order lookup, idempotency
\* check, amount check, trade status check
Notify(h, p) ==
  /\ notify[h].pc = "idle"
  /\ LET o == p.out_trade_no
         found == "out_trade_no" \in p.keys /\ o \in OrderIds /\ orders[o] # NoRow
     IN  IF ~(RequiredParams \subseteq p.keys)
           THEN notify' = [notify EXCEPT ![h] =
                  [@ EXCEPT !.pc = "idle", !.req = p, !.ord = NoRow, !.mid = FALSE, !.new_balance = 0, !.ack = "fail", !.out = "missing"]]
         ELSE IF ~verify_zpay_callback(p, MERCHANT_KEY)
           THEN notify' = [notify EXCEPT ![h] =
                  [@ EXCEPT !.pc = "idle", !.req = p, !.ord = NoRow, !.mid = FALSE, !.new_balance = 0, !.ack = "fail", !.out = "badsign"]]
         ELSE IF ~found
           THEN notify' = [notify EXCEPT ![h] =
                  [@ EXCEPT !.pc = "idle", !.req = p, !.ord = NoRow, !.mid = FALSE, !.new_balance = 0, !.ack = "fail", !.out = "noorder"]]
         ELSE IF orders[o].status = SUCCESS
           THEN notify' = [notify EXCEPT ![h] =
                  [@ EXCEPT !.pc = "idle", !.req = p, !.ord = NoRow, !.mid = FALSE, !.new_balance = 0, !.ack = "success", !.out = "already"]]
         ELSE IF ~AmountMatches(p.money, orders[o].money)
           THEN notify' = [notify EXCEPT ![h] =
                  [@ EXCEPT !.pc = "idle", !.req = p, !.ord = NoRow, !.mid = FALSE, !.new_balance = 0, !.ack = "fail", !.out = "mismatch"]]
         ELSE IF ~TradeSucceeded(p.trade_status)
           THEN notify' = [notify EXCEPT ![h] =
                  [@ EXCEPT !.pc = "idle", !.req = p, !.ord = NoRow, !.mid = FALSE, !.new_balance = 0, !.ack = "success", !.out = "notsuccess"]]
         ELSE /\ Len(ledger) + Settling < MaxLedger
              /\ notify' = [notify EXCEPT ![h] =
                   [IdleNotify EXCEPT !.pc = "settle", !.req = p, !.ord = orders[o]]]
  /\ UNCHANGED <<db, now, creator, cancel, sweep, debit, grant, signing, admin>>

\* lines 508-575 up to the end of the with-block: the order update and the
\* credit are made in the session; add_credits loads the profile, and
\* get_user_profile_or_create commits the session when it has to insert one
Settle(h) ==
  /\ notify[h].pc = "settle"
  /\ LET ord == notify[h].ord
         u == ord.user_id
         product == PRODUCT_CONFIG[ord.product]
         credits_to_add == product.credits
         created == profiles[u] = NoRow
         stale == orders[ord.id] = NoRow
         profile == IF created THEN DefaultProfile ELSE profiles[u]
     IN  IF created /\ stale
           THEN \* the flush of the order update matches no row
                /\ Respond(h, "fail", "error")
                /\ UNCHANGED <<orders, profiles>>
           ELSE /\ notify' = [notify EXCEPT ![h].pc = "commit",
                                ![h].mid = created,
                                ![h].new_balance = profile.credits + credits_to_add]
                /\ IF created
                     THEN /\ profiles' = [profiles EXCEPT ![u] = DefaultProfile]
                          /\ orders' = [orders EXCEPT ![ord.id] =
                                 update_payment_order(@, ord, SuccessUpdate)]
                     ELSE UNCHANGED <<orders, profiles>>
  /\ UNCHANGED <<nextId, ledger, grants, tasks, now, creator, cancel, sweep, debit, grant, signing, admin>>

\* add_credits as it leaves the profile row and the ledger once committed:
\* new_balance = profile.credits + amount was computed on the loaded
\* profile, and update_user_credits(db, user_id, amount) stores its third
\* argument in the credits column (written when it differs from the loaded
\* value)
add_credits(row, new_balance, u, amount, source, source_id) ==
  [profile |-> [row EXCEPT !.credits =
                   IF amount # new_balance - amount THEN amount ELSE @],
   entry |-> CreditTransaction(u, amount, new_balance, source, source_id)]

\* the end of the with-block: the session is committed.  `kept` is whether
\* what the session changed after a commit made inside the block is still
\* committed by the block's end; that depends on the session factory
CommitSettle(h, kept) ==
  /\ notify[h].pc = "commit"
  /\ Len(ledger) < MaxLedger
  /\ kept \/ notify[h].mid
  /\ LET ord == notify[h].ord
         u == ord.user_id
         product == PRODUCT_CONFIG[ord.product]
         r == add_credits(profiles[u], notify[h].new_balance, u,
                          product.credits, "recharge", ord.id)
         granted == /\ product.membership # NoMembership
                    /\ update_user_role(4, {"commit"}, product.membership.level)
         stale == ~notify[h].mid /\ orders[ord.id] = NoRow
     IN  IF ~kept \/ stale
           THEN /\ Respond(h, "fail", "error")
                /\ UNCHANGED <<orders, profiles, ledger, grants>>
           ELSE /\ orders' = IF notify[h].mid THEN orders
                             ELSE [orders EXCEPT ![ord.id] =
                                     update_payment_order(@, ord, SuccessUpdate)]
                /\ profiles' = [profiles EXCEPT ![u] =
                      IF granted
                        THEN [r.profile EXCEPT !.membership_type = "premium",
                                               !.membership_expires_at = now + 365]
                        ELSE r.profile]
                /\ ledger' = Append(ledger, r.entry)
                /\ grants' = IF granted THEN grants \cup {ord.id} ELSE grants
                /\ Respond(h, "success", "applied")
  /\ UNCHANGED <<nextId, tasks, now, creator, cancel, sweep, debit, grant, signing, admin>>

\* ------------------------------------------------- create_payment_order
IdleCreator == [pc |-> "idle", user |-> None, product |-> "",
                order |-> NoRow, out |-> "none"]

\* an existing-order query that finds nothing
RecentPending_none(u) == {}

\* create_payment_order_with_sign, lines 264-283: a Pending order of the user
\* created within the last five minutes
RecentPending(u) ==
  {o \in OrderIds : /\ orders[o] # NoRow
                    /\ orders[o].user_id = u
                    /\ orders[o].created_at >= now - FiveMinutes
                    /\ orders[o].status = PENDING}

CreateCheck(c, u, p) ==
  /\ creator[c].pc = "idle"
  /\ nextId <= MaxOrders
  /\ IF RecentPending(u) # {}
       THEN creator' = [creator EXCEPT ![c] =
              [IdleCreator EXCEPT !.user = u, !.out = "duplicate"]]
       ELSE creator' = [creator EXCEPT ![c] =
              [pc |-> "insert", user |-> u, product |-> p, order |-> NoRow,
               out |-> "none"]]
  /\ UNCHANGED <<db, now, notify, cancel, sweep, debit, grant, signing, admin>>

\* crud create_payment_order, lines 21-55: the row is inserted and committed;
\* the table has no unique index (models/payment_order.py lines 46-49)
NewOrder(id, u, p) ==
  [row |-> TRUE, id |-> id, user_id |-> u, status |-> PENDING,
   unique_pending_flag |-> 0, product |-> p,
   money |-> PRODUCT_CONFIG[p].price, trade_no |-> None,
   trade_status |-> "", created_at |-> now]

CreateInsert(c) ==
  /\ creator[c].pc = "insert"
  /\ nextId <= MaxOrders
  /\ orders' = [orders EXCEPT ![nextId] =
                  NewOrder(nextId, creator[c].user, creator[c].product)]
  /\ nextId' = nextId + 1
  /\ creator' = [creator EXCEPT ![c].pc = "call",
                                ![c].order = orders'[nextId]]
  /\ UNCHANGED <<profiles, ledger, grants, tasks, now, notify, cancel, sweep, debit, grant, signing, admin>>

\* what call_zpay_api hands to create_payment_order: a response with code 1,
\* a failure (another numeric code, a response that does not parse, or no
\* response at all), or a response whose code is a non-numeric string
ProviderAnswers == {"ok", "failed", "nonnumeric"}

\* api create_payment_order, lines 88-248: the answer "ok" is written back
\* with status 0 and a failure closes the order; int() of a non-numeric code
\* raises ValueError, which the handler of line 231 turns into HTTP 429
\* without touching the order.  The session still holds the order as it
\* inserted it
CreateComplete(c, answer) ==
  /\ creator[c].pc = "call"
  /\ LET ord == creator[c].order
         update_data == IF answer = "ok" THEN [trade_no |-> 1, status |-> PENDING]
                        ELSE [status |-> CLOSED]
     IN  /\ orders' = IF orders[ord.id] = NoRow \/ answer = "nonnumeric"
                        THEN orders
                      ELSE [orders EXCEPT ![ord.id] =
                              update_payment_order(@, ord, update_data)]
         /\ creator' = [creator EXCEPT ![c] =
              [IdleCreator EXCEPT !.out = IF answer = "ok" THEN "created"
                                          ELSE IF answer = "failed" THEN "closed"
                                          ELSE "toomany"]]
  /\ UNCHANGED <<nextId, profiles, ledger, grants, tasks, now, notify, cancel, sweep, debit, grant, signing, admin>>

\* ------------------------------------------------- cancel_payment_order
IdleCancel == [pc |-> "idle", order |-> NoRow]

\* lines 266-289: the order is loaded and must be Pending
CancelRead(o) ==
  /\ cancel.pc = "idle"
  /\ orders[o] # NoRow
  /\ orders[o].status = PENDING
  /\ cancel' = [pc |-> "write", order |-> orders[o]]
  /\ UNCHANGED <<db, now, notify, creator, sweep, debit, grant, signing, admin>>

\* lines 291-293: the order is closed and the session committed
CancelWrite ==
  /\ cancel.pc = "write"
  /\ LET ord == cancel.order
     IN  orders' = IF orders[ord.id] = NoRow THEN orders
                   ELSE [orders EXCEPT ![ord.id] =
                           update_payment_order(@, ord, [status |-> CLOSED])]
  /\ cancel' = IdleCancel
  /\ UNCHANGED <<nextId, profiles, ledger, grants, tasks, now, notify, creator, sweep, debit, grant, signing, admin>>

\* ------------------------------------------ delete_pending_payment_orders
IdleSweep == [pc |-> "idle", pending_orders |-> {}, deleted_count |-> 0]

\* lines 212-214: the Pending orders are loaded
SweepRead ==
  /\ sweep.pc = "idle"
  /\ \E o \in OrderIds : IsPending(o)
  /\ sweep' = [pc |-> "delete",
               pending_orders |-> {o \in OrderIds : IsPending(o)},
               deleted_count |-> 0]
  /\ UNCHANGED <<db, now, notify, creator, cancel, debit, grant, signing, admin>>

\* lines 217-226: the loaded orders are deleted by primary key and their
\* number is returned
SweepDelete ==
  /\ sweep.pc = "delete"
  /\ orders' = [o \in OrderIds |->
                  IF o \in sweep.pending_orders THEN NoRow ELSE orders[o]]
  /\ sweep' = [IdleSweep EXCEPT
                 !.deleted_count = Cardinality(sweep.pending_orders)]
  /\ UNCHANGED <<nextId, profiles, ledger, grants, tasks, now, notify, creator, cancel, debit, grant, signing, admin>>


\* ---------------------------------------------------- image generation
IdleDebit == [pc |-> "idle", user |-> None, amount |-> 0, credits |-> 0]

\* a consume_credits whose ledger entry carries the amount as given
consume_credits_unsigned(row, credits, u, amount, source, source_id) ==
  LET new_balance == credits - amount
  IN  [profile |-> [row EXCEPT !.credits = new_balance],
       entry |-> CreditTransaction(u, amount, new_balance, source, source_id)]

\* consume_credits as it leaves the profile row and the ledger once
\* committed, `credits` being the balance the session loaded
consume_credits(row, credits, u, amount, source, source_id) ==
  LET new_balance == credits - amount
  IN  [profile |-> [row EXCEPT !.credits =
                       IF new_balance # credits THEN new_balance ELSE @],
       entry |-> CreditTransaction(u, -amount, new_balance, source, source_id)]

\* a consume_credits without the balance check of line 78
InsufficientCredits_unchecked(credits, amount) == FALSE

\* consume_credits, line 78
InsufficientCredits(credits, amount) == credits < amount

\* validate_request lines 113-121 and consume_credits lines 75-79: the
\* profile is loaded (and inserted when missing) and the balance checked
DebitRead(u, amount) ==
  /\ debit.pc = "idle"
  /\ LET profile == IF profiles[u] = NoRow THEN DefaultProfile ELSE profiles[u]
     IN  /\ profiles' = [profiles EXCEPT ![u] = profile]
         /\ debit' = IF InsufficientCredits(profile.credits, amount)
                       THEN IdleDebit
                       ELSE [pc |-> "write", user |-> u, amount |-> amount,
                             credits |-> profile.credits]
  /\ UNCHANGED <<orders, nextId, ledger, grants, tasks, now, notify, creator, cancel, sweep, grant, signing, admin>>

\* consume_credits lines 81-109 and create_task_with_transaction lines
\* 159-175: the debit is committed and the task inserted as PROCESSING
DebitWrite(t) ==
  /\ debit.pc = "write"
  /\ Len(ledger) < MaxLedger
  /\ tasks[t] = NoRow
  /\ \A t2 \in TaskIds : t2 < t => tasks[t2] # NoRow
  /\ LET u == debit.user
         r == consume_credits(profiles[u], debit.credits, u, debit.amount,
                              "drawing_generation", None)
     IN  /\ profiles' = [profiles EXCEPT ![u] = r.profile]
         /\ ledger' = Append(ledger, r.entry)
         /\ tasks' = [tasks EXCEPT ![t] =
                        [row |-> TRUE, user_id |-> u,
                         credits_used |-> debit.amount, status |-> "PROCESSING"]]
  /\ debit' = IdleDebit
  /\ UNCHANGED <<orders, nextId, grants, now, notify, creator, cancel, sweep, grant, signing, admin>>

\* handle_task_failure, lines 447-483: the task is marked FAILED and its
\* credits are added back
TaskFailure(t) ==
  /\ tasks[t] # NoRow
  /\ Len(ledger) < MaxLedger
  /\ LET u == tasks[t].user_id
         amount == tasks[t].credits_used
         r == add_credits(profiles[u], profiles[u].credits + amount, u, amount,
                          "generation_refund", None)
     IN  /\ profiles' = [profiles EXCEPT ![u] = r.profile]
         /\ ledger' = Append(ledger, r.entry)
  /\ tasks' = [tasks EXCEPT ![t].status = "FAILED"]
  /\ UNCHANGED <<orders, nextId, grants, now, notify, creator, cancel, sweep, debit, grant, signing, admin>>

\* what became of the image a success callback carries: it was stored (with
\* or without a warning, lines 362-374 and 391-399) or no usable URL is left
\* (lines 375-390)
ImageOutcomes == {"stored", "unusable"}

\* handle_task_success, lines 246-401: the task is loaded whatever its
\* status; it is marked SUCCESS, or FAILED with its credits added back
TaskSuccess(t, outcome) ==
  /\ tasks[t] # NoRow
  /\ IF outcome = "stored"
       THEN /\ tasks' = [tasks EXCEPT ![t].status = "SUCCESS"]
            /\ UNCHANGED <<profiles, ledger>>
       ELSE /\ Len(ledger) < MaxLedger
            /\ LET u == tasks[t].user_id
                   amount == tasks[t].credits_used
                   r == add_credits(profiles[u], profiles[u].credits + amount,
                                    u, amount, "generation_refund", None)
               IN  /\ profiles' = [profiles EXCEPT ![u] = r.profile]
                   /\ ledger' = Append(ledger, r.entry)
            /\ tasks' = [tasks EXCEPT ![t].status = "FAILED"]
  /\ UNCHANGED <<orders, nextId, grants, now, notify, creator, cancel, sweep, debit, grant, signing, admin>>

\* consume_credits, lines 72-113, called with nothing else in progress: the
\* profile is loaded (and inserted when missing); the call raises at line
\* 79 before any write, or updates the balance, adds the entry and commits.
\* The call and the balance it loaded stay on record with its outcome
ConsumeCredits(u, amount) ==
  /\ debit.pc # "write"
  /\ LET profile == IF profiles[u] = NoRow THEN DefaultProfile ELSE profiles[u]
         r == consume_credits(profile, profile.credits, u, amount,
                              "drawing_generation", None)
     IN  IF InsufficientCredits(profile.credits, amount)
           THEN /\ profiles' = [profiles EXCEPT ![u] = profile]
                /\ ledger' = ledger
                /\ debit' = [pc |-> "raised", user |-> u, amount |-> amount,
                             credits |-> profile.credits]
           ELSE /\ Len(ledger) < MaxLedger
                /\ profiles' = [profiles EXCEPT ![u] = r.profile]
                /\ ledger' = Append(ledger, r.entry)
                /\ debit' = [pc |-> "returned", user |-> u, amount |-> amount,
                             credits |-> profile.credits]
  /\ UNCHANGED <<orders, nextId, grants, tasks, now, notify, creator, cancel, sweep, grant, signing, admin>>

\* ------------------------------------------------- update_user_assets
\* the credits an administrator may ask for
AdminCredits == {-10, 0, 50}

\* update_user_assets_atomic, lines 271-272
ValidAssetUpdate(credits) == ~(credits < 0)

\* api update_user_assets with update_user_assets_atomic, for a body that
\* sets the credits and a request that does not raise: the credits are set
\* and, when they changed, an admin_adjustment entry is appended; the
\* response and the audit row are those of UpdateUserAssets
AdminAdjust(u, credits) ==
  /\ profiles[u] # NoRow
  /\ Len(ledger) < MaxLedger
  /\ LET old_credits == profiles[u].credits
     IN  IF ValidAssetUpdate(credits)
           THEN /\ profiles' = [profiles EXCEPT ![u].credits = credits]
                /\ ledger' = IF old_credits # credits
                               THEN Append(ledger,
                                      CreditTransaction(u, credits - old_credits,
                                        credits, "admin_adjustment", None))
                               ELSE ledger
           ELSE UNCHANGED <<profiles, ledger>>
  /\ UNCHANGED <<orders, nextId, grants, tasks, now, notify, creator, cancel, sweep, debit, grant, signing, admin>>

\* ----------------------------------- update_user_assets, the whole request
NoAdmin ==
  [user |-> None, update_data |-> <<>>, fail |-> "none", status |-> "none",
   log |-> NoRow]

\* before_data and after_data of update_user_assets_atomic, lines 259-325
AssetData(profile) ==
  [credits |-> profile.credits, membership_type |-> profile.membership_type,
   membership_expires_at |-> profile.membership_expires_at]

\* the bodies an administrator sends: the fields set in the request
AssetUpdates ==
  {[credits |-> c] : c \in AdminCredits}
    \cup {[membership_type |-> t] : t \in {1, 2, 3}}
    \cup {[credits |-> 50, membership_type |-> 2],
          [credits |-> 50, membership_type |-> 3],
          [free_model1_usages |-> -1],
          [credits |-> 50, free_model1_usages |-> -1]}

\* update_user_assets_atomic, lines 270-281
ValidUpdateData(update_data) ==
  /\ "credits" \in DOMAIN update_data => ValidAssetUpdate(update_data.credits)
  /\ "membership_type" \in DOMAIN update_data =>
       update_data.membership_type \in {0, 1, 2}
  /\ "free_model1_usages" \in DOMAIN update_data =>
       ~(update_data.free_model1_usages < 0)

\* update_user_assets_atomic, lines 289-290: setattr of the fields set
UpdatedProfile(profile, update_data) ==
  [profile EXCEPT
     !.credits = IF "credits" \in DOMAIN update_data
                   THEN update_data.credits ELSE @,
     !.membership_type = IF "membership_type" \in DOMAIN update_data
                           THEN update_data.membership_type ELSE @]

\* what the request writes in its session, in this order: the profile
\* (lines 289-294), the admin_adjustment entry (lines 297-316) and the audit
\* row (create_admin_operation_log)
AssetUnits == <<"profile", "ledger", "audit">>

UnitNo(x) == CHOOSE i \in 1..Len(AssetUnits) : AssetUnits[i] = x

\* where the request may raise: nowhere, while it writes one of its units, or
\* in its last db.commit()
AssetFailures == {"none", "profile", "ledger", "audit", "commit"}

\* a request that commits after each of its writes
CommitsAfter_each == {"profile", "ledger", "audit"}

\* the units after which the request calls db.commit(): the only commit
\* follows the audit row (api update_user_assets, line 191)
CommitsAfter == {"audit"}

\* the units that stay committed when the request raises at `fail`: the ones
\* written before a commit that succeeded; the except clauses roll the rest
\* back
Durable(fail) ==
  LET last == CHOOSE c \in CommitsAfter :
                \A d \in CommitsAfter : UnitNo(d) <= UnitNo(c)
      succeeded(c) ==
        \/ fail = "none"
        \/ fail = "commit" /\ c # last
        \/ fail \notin {"none", "commit"} /\ UnitNo(c) < UnitNo(fail)
  IN  {x \in {"profile", "ledger", "audit"} :
         \E c \in CommitsAfter : UnitNo(x) <= UnitNo(c) /\ succeeded(c)}

\* api update_user_assets, lines 138-220, with update_user_assets_atomic and
\* log_user_asset_update: a request for a user without a profile is answered
\* 404, an invalid body 400 (ValueError) and a request that raises 500, each
\* after a rollback
UpdateUserAssets(u, update_data, fail) ==
  /\ Len(ledger) < MaxLedger
  /\ IF profiles[u] = NoRow
       THEN /\ fail = "none"
            /\ admin' = [user |-> u, update_data |-> update_data, fail |-> fail,
                         status |-> "notfound", log |-> NoRow]
            /\ UNCHANGED <<profiles, ledger>>
       ELSE LET profile == profiles[u]
                valid == ValidUpdateData(update_data)
                new == UpdatedProfile(profile, update_data)
                credits_changed == profile.credits # new.credits
                entry == CreditTransaction(u, new.credits - profile.credits,
                           new.credits, "admin_adjustment", None)
                row == [row |-> TRUE, target_user_id |-> u,
                        before_data |-> AssetData(profile),
                        after_data |-> AssetData(new)]
                kept == IF valid THEN Durable(fail) ELSE {}
            IN  /\ ~valid => fail = "none"
                /\ fail = "ledger" => credits_changed
                /\ profiles' = IF "profile" \in kept
                                 THEN [profiles EXCEPT ![u] = new]
                                 ELSE profiles
                /\ ledger' = IF "ledger" \in kept /\ credits_changed
                               THEN Append(ledger, entry)
                               ELSE ledger
                /\ admin' = [user |-> u, update_data |-> update_data,
                             fail |-> fail,
                             status |-> IF ~valid THEN "rejected"
                                        ELSE IF fail = "none" THEN "ok"
                                        ELSE "failed",
                             log |-> IF "audit" \in kept THEN row ELSE NoRow]
  /\ UNCHANGED <<orders, nextId, grants, tasks, now, notify, creator, cancel,
                 sweep, debit, grant, signing>>

\* --------------------------------------------------- upgrade_membership
\* timedelta(days=1) in the minutes of the clock
Day == 1440

Tiers == 0 .. 2

\* the days a grant asks for (PRODUCT_CONFIG memberships are of 30 days)
GrantDays == {30}

\* the clock of the membership specification moves by this many days
DayStep == 10

NoGrant ==
  [user |-> None, membership_type |-> 0, days |-> 0, at |-> 0,
   before |-> NoRow, returned |-> "none"]

\* a grant that writes the requested tier and now + days whatever the
\* profile holds
upgrade_membership_overwrite(profile, membership_type, days, t) ==
  [profile EXCEPT !.membership_type = membership_type,
                  !.membership_expires_at = t + days * Day]

\* an expiry that always starts from the time of the grant
NewExpiresAt_reset(current_expires_at, days, t) == t + days * Day

\* upgrade_membership lines 115-121: the expiry a grant computes
NewExpiresAt(current_expires_at, days, t) ==
  IF current_expires_at # None /\ current_expires_at > t
    THEN current_expires_at + days * Day
    ELSE t + days * Day

\* upgrade_membership lines 98-145 on the profile row it loaded, at time t
upgrade_membership(profile, membership_type, days, t) ==
  LET expired == profile.membership_expires_at # None
                   /\ profile.membership_expires_at <= t
      current_membership_type == IF expired THEN 0 ELSE profile.membership_type
      current_expires_at == IF expired THEN None ELSE profile.membership_expires_at
      new_expires_at == NewExpiresAt(current_expires_at, days, t)
  IN  IF current_membership_type = 2 /\ membership_type < 2
        THEN profile
      ELSE IF membership_type > current_membership_type
                \/ current_membership_type = 0
        THEN [profile EXCEPT !.membership_type = membership_type,
                             !.membership_expires_at = new_expires_at]
      ELSE IF membership_type = current_membership_type
        THEN [profile EXCEPT !.membership_expires_at = new_expires_at]
      ELSE profile

\* upgrade_membership lines 92-96 and 125-145: without a profile row the
\* call returns None; otherwise the row is updated and committed
UpgradeMembership(u, membership_type, days) ==
  /\ IF profiles[u] = NoRow
       THEN /\ UNCHANGED profiles
            /\ grant' = [user |-> u, membership_type |-> membership_type,
                         days |-> days, at |-> now, before |-> NoRow,
                         returned |-> "None"]
       ELSE LET after == upgrade_membership(profiles[u], membership_type, days, now)
            IN  /\ after.membership_expires_at <= (MaxDays + 60) * Day
                /\ profiles' = [profiles EXCEPT ![u] = after]
                /\ grant' = [user |-> u, membership_type |-> membership_type,
                             days |-> days, at |-> now, before |-> profiles[u],
                             returned |-> "profile"]
  /\ UNCHANGED <<orders, nextId, ledger, grants, tasks, now, notify, creator,
                 cancel, sweep, debit, signing, admin>>

\* update_user_assets with update_user_assets_atomic lines 271-291: an
\* administrator sets the tier and the expiry of a profile
AdminMembership(u, membership_type, expires) ==
  /\ profiles[u] # NoRow
  /\ membership_type \in {0, 1, 2}
  /\ profiles' = [profiles EXCEPT ![u].membership_type = membership_type,
                                  ![u].membership_expires_at = expires]
  /\ UNCHANGED <<orders, nextId, ledger, grants, tasks, now, notify, creator,
                 cancel, sweep, debit, grant, signing, admin>>

\* days go by
Pass ==
  /\ now + DayStep * Day <= MaxDays * Day
  /\ now' = now + DayStep * Day
  /\ UNCHANGED <<db, notify, creator, cancel, sweep, debit, grant, signing, admin>>

\* ------------------------------------------------------------- the clock
Tick ==
  /\ now + TickStep <= MaxTime
  /\ now' = now + TickStep
  /\ UNCHANGED <<db, notify, creator, cancel, sweep, debit, grant, signing, admin>>

\* ------------------------------------------------------------ callbacks
Signed(keys, o, money, trade_status, key) ==
  LET base == [keys |-> keys, out_trade_no |-> o, money |-> money,
               trade_status |-> trade_status, sign |-> NoSign]
  IN  [base EXCEPT !.sign = generate_md5_sign(base, key)]

\* the provider's success callbacks: correctly signed, for an order number
\* of the model, with the amount the order was created with (the price of
\* any product once the order's row is gone)
Deliveries ==
  {Signed(RequiredParams, op[1], OrderMills(PRODUCT_CONFIG[op[2]].price),
          "TRADE_SUCCESS", MERCHANT_KEY) :
     op \in {x \in OrderIds \X Products :
               orders[x[1]] = NoRow \/ orders[x[1]].product = x[2]}}

\* ------------------------------------------------------- specification
\* user 1 has registered (api/v1/auth.py line 137 inserts the profile);
\* user 2 has no profile yet
Init ==
  /\ orders = [o \in OrderIds |-> NoRow]
  /\ nextId = 1
  /\ profiles = [u \in Users |-> IF u = 1 THEN DefaultProfile ELSE NoRow]
  /\ ledger = <<>>
  /\ grants = {}
  /\ tasks = [t \in TaskIds |-> NoRow]
  /\ now = 0
  /\ notify = [h \in Handlers |-> IdleNotify]
  /\ creator = [c \in Creators |-> IdleCreator]
  /\ cancel = IdleCancel
  /\ sweep = IdleSweep
  /\ debit = IdleDebit
  /\ grant = NoGrant
  /\ signing = Signing(<<>>, NoSigned)
  /\ admin = NoAdmin

NotifyStep(hs, ps) ==
  \/ \E h \in hs, p \in ps : Notify(h, p)
  \/ \E h \in hs : Settle(h)
  \/ \E h \in hs, kept \in BOOLEAN : CommitSettle(h, kept)

CreateStep(cs, us) ==
  \/ \E c \in cs, u \in us, p \in Products : CreateCheck(c, u, p)
  \/ \E c \in cs : CreateInsert(c)
  \/ \E c \in cs, answer \in ProviderAnswers : CreateComplete(c, answer)

CancelStep ==
  \/ \E o \in OrderIds : CancelRead(o)
  \/ CancelWrite

SweepStep ==
  \/ SweepRead
  \/ SweepDelete

LedgerStep(us) ==
  \/ \E u \in us, a \in ModelCredits : DebitRead(u, a)
  \/ \E t \in TaskIds : DebitWrite(t)
  \/ \E t \in TaskIds : TaskFailure(t)
  \/ \E u \in us, c \in AdminCredits : AdminAdjust(u, c)

\* the ledger: orders of both users settled one at a time, debits, refunds
\* and administrative adjustments
Next ==
  \/ NotifyStep({1}, Deliveries)
  \/ CreateStep({1}, Users)
  \/ LedgerStep(Users)

Spec == Init /\ [][Next]_vars

\* the ledger of one user who starts without a profile: orders settled,
\* debits, refunds and administrative adjustments, interleaved
NextLedger ==
  \/ NotifyStep({1}, Deliveries)
  \/ CreateStep({1}, {2})
  \/ LedgerStep({2})

SpecLedger == Init /\ [][NextLedger]_vars

\* concurrent deliveries of the provider's callbacks
NextSettle ==
  \/ NotifyStep(Handlers, Deliveries)
  \/ CreateStep({1}, Users)

SpecSettle == Init /\ [][NextSettle]_vars

\* a delivery racing with the owner's cancel request, the sweep and the
\* completion of the order-creation request
NextRace ==
  \/ NotifyStep({1}, Deliveries)
  \/ CreateStep({1}, {1})
  \/ CancelStep
  \/ SweepStep

SpecRace == Init /\ [][NextRace]_vars

\* concurrent order creation as time passes
NextCreate ==
  \/ CreateStep(Creators, {1})
  \/ CancelStep
  \/ Tick

SpecCreate == Init /\ [][NextCreate]_vars


\* callbacks of every shape: a parameter missing, a wrong or empty
\* signature, an unknown order number, other amounts, another trade status
UnknownOrder == 0

Amounts == {2900, 18000, 18900, 18904}

Prices == {OrderMills(PRODUCT_CONFIG[p].price) : p \in Products}

AllCallbacks ==
  LET orderNos == OrderIds \cup {UnknownOrder}
      good == {Signed(RequiredParams, o, m, ts, MERCHANT_KEY) :
                 o \in orderNos, m \in Amounts,
                 ts \in {"TRADE_SUCCESS", "WAIT_BUYER_PAY"}}
      short == {Signed(keys, o, m, "TRADE_SUCCESS", MERCHANT_KEY) :
                  keys \in {RequiredParams \ {"sign"}, RequiredParams \ {"trade_no"}},
                  o \in OrderIds, m \in Prices}
      forged == {Signed(RequiredParams, o, m, "TRADE_SUCCESS", OtherKey) :
                   o \in OrderIds, m \in Prices}
  IN  good \cup short \cup forged \cup {[p EXCEPT !.sign = NoSign] : p \in forged}

NextValidate ==
  \/ NotifyStep({1}, AllCallbacks)
  \/ CreateStep({1}, {1})

SpecValidate == Init /\ [][NextValidate]_vars

\* callbacks of every shape with the price of a product, the ones that are
\* not a correctly signed success callback with the lowest price only
LowestPrice == CHOOSE m \in Prices : \A n \in Prices : m <= n

RespondCallbacks ==
  {p \in AllCallbacks :
     /\ p.money \in Prices
     /\ \/ p.money = LowestPrice
        \/ /\ RequiredParams \subseteq p.keys
           /\ p.sign = generate_md5_sign(p, MERCHANT_KEY)
           /\ p.trade_status = "TRADE_SUCCESS"}

\* callbacks of every shape for the orders of a user whose profile does not
\* exist yet; a request that has started runs to its response
NextRespond ==
  \/ NotifyStep({1}, RespondCallbacks)
  \/ CreateStep({1}, {2})

SpecRespond ==
  /\ Init /\ [][NextRespond]_vars
  /\ WF_vars(Settle(1))
  /\ WF_vars(\E kept \in BOOLEAN : CommitSettle(1, kept))

\* membership grants to a user with a profile and to one without, changes
\* made by an administrator, and days going by
NextGrant ==
  \/ \E u \in Users, t \in Tiers, d \in GrantDays : UpgradeMembership(u, t, d)
  \/ \E u \in Users, t \in Tiers, d \in GrantDays :
       AdminMembership(u, t, now + d * Day)
  \/ \E u \in Users, t \in Tiers : AdminMembership(u, t, None)
  \/ Pass

SpecGrant == Init /\ [][NextGrant]_vars

\* one request at a time: a request starts only when no other is in progress
AllIdle ==
  /\ \A h \in Handlers : notify[h].pc = "idle"
  /\ \A c \in Creators : creator[c].pc = "idle"
  /\ cancel.pc = "idle"
  /\ sweep.pc = "idle"
  /\ debit.pc = "idle"

Continue ==
  \/ Settle(1)
  \/ \E kept \in BOOLEAN : CommitSettle(1, kept)
  \/ CreateInsert(1)
  \/ \E answer \in ProviderAnswers : CreateComplete(1, answer)
  \/ \E t \in TaskIds : DebitWrite(t)

NextSeq ==
  \/ AllIdle /\ Next
  \/ ~AllIdle /\ Continue

SpecSeq == Init /\ [][NextSeq]_vars

\* parameter dicts built item by item, signed and verified
NextSign ==
  \/ \E k \in ParamNames : \E v \in ParamValues(k) : SetParam(k, v)
  \/ \E k \in ParamNames : DelParam(k)
  \/ Reorder
  \/ \E key \in {MERCHANT_KEY, OtherKey}, up \in BOOLEAN : AttachSign(key, up)

SpecSign == Init /\ [][NextSign]_vars


\* debits and refunds of a user interleaved with the settlement of the
\* user's orders
NextConsume ==
  \/ NotifyStep({1}, Deliveries)
  \/ CreateStep({1}, {2})
  \/ \E a \in ModelCredits : DebitRead(2, a)
  \/ \E t \in TaskIds : DebitWrite(t)
  \/ \E t \in TaskIds : TaskFailure(t)

SpecConsume == Init /\ [][NextConsume]_vars

\* the requests that update an order: a delivery, the completion of the
\* order-creation request and the owner's cancel request
NextFlag ==
  \/ NotifyStep({1}, Deliveries)
  \/ CreateStep({1}, {1})
  \/ CancelStep

SpecFlag == Init /\ [][NextFlag]_vars

\* requests of an administrator, failing at any of their writes or not at
\* all, for a user with a profile and for one without
NextAdmin ==
  \E u \in Users, update_data \in AssetUpdates, fail \in AssetFailures :
    UpdateUserAssets(u, update_data, fail)

SpecAdmin == Init /\ [][NextAdmin]_vars

\* consume_credits called for a user whose orders are being settled
NextDebit ==
  \/ NotifyStep({1}, Deliveries)
  \/ CreateStep({1}, {2})
  \/ \E a \in ModelCredits : ConsumeCredits(2, a)

SpecDebit == Init /\ [][NextDebit]_vars

\* image-generation tasks of a user: the debit that creates the task, the
\* failure of the webhook call, failure callbacks and success callbacks
NextRefund ==
  \/ NotifyStep({1}, Deliveries)
  \/ CreateStep({1}, {2})
  \/ \E a \in ModelCredits : DebitRead(2, a)
  \/ \E t \in TaskIds : DebitWrite(t)
  \/ \E t \in TaskIds : TaskFailure(t)
  \/ \E t \in TaskIds, outcome \in ImageOutcomes : TaskSuccess(t, outcome)

SpecRefund == Init /\ [][NextRefund]_vars

\* ------------------------------------------------------------------ C1
\* C1: after any sequence of add_credits and consume_credits calls on one
\* user the profile's credits equal the sum of the user's ledger amounts and
\* the balance_after of the user's latest ledger entry.
C1_Reconciled ==
  \A u \in Users :
    profiles[u] # NoRow =>
      /\ profiles[u].credits = DefaultCredits + SumAmounts(ledger, u)
      /\ EntriesOf(u) # <<>> =>
           profiles[u].credits = EntriesOf(u)[Len(EntriesOf(u))].balance_after


\* ------------------------------------------------------------------ C2
Applied(h, o) ==
  notify[h].pc = "idle" /\ notify[h].out = "applied" /\ notify[h].req.out_trade_no = o

\* C2: of two concurrent deliveries of the same success callback for one
\* Pending order exactly one is Applied, so at most one "recharge" entry of
\* the order exists.
C2_OneApplied ==
  \A o \in OrderIds :
    /\ Cardinality(RechargesOf(o)) <= 1
    /\ ~(\E h1, h2 \in Handlers : h1 # h2 /\ Applied(h1, o) /\ Applied(h2, o))

\* ------------------------------------------------------------------ C3
HasMembership(o) == PRODUCT_CONFIG[orders[o].product].membership # NoMembership

\* C3: once a success callback of an order has been answered Applied or
\* AlreadyApplied, any number of deliveries later, the order has exactly one
\* ledger entry and, for a product with a membership, exactly one membership
\* mutation.
C3_ReplayOnce ==
  \A h \in Handlers :
    (notify[h].pc = "idle" /\ notify[h].out \in {"applied", "already"}) =>
      LET o == notify[h].req.out_trade_no
      IN  /\ Cardinality(RechargesOf(o)) = 1
          /\ HasMembership(o) => o \in grants

\* ------------------------------------------------------------------ C4
\* C4: an order is Success only if its product's credit, and its membership
\* grant when the product defines one, have been applied.
C4_AllOrNothing ==
  \A o \in OrderIds :
    (orders[o] # NoRow /\ orders[o].status = SUCCESS) =>
      /\ RechargesOf(o) # {}
      /\ HasMembership(o) => o \in grants

\* ------------------------------------------------------------------ C5
PendingOf(u) == {o \in OrderIds : IsPending(o) /\ orders[o].user_id = u}

\* C5: at most one order per user is Pending.
C5_OnePending == \A u \in Users : Cardinality(PendingOf(u)) <= 1

\* ------------------------------------------------------------------ C6
\* C6: an order that is Success stays Success.
C6_SuccessTerminal ==
  [][\A o \in OrderIds :
       (orders[o] # NoRow /\ orders[o].status = SUCCESS) =>
         (orders'[o] # NoRow /\ orders'[o].status = SUCCESS)]_vars

\* ------------------------------------------------------------------ C7
\* C7: a delivery that found its order Closed changes neither the order nor
\* the ledger nor the profiles.
C7_ClosedTerminal ==
  [][\A h \in Handlers :
       (notify[h].pc # "idle" /\ notify[h].ord.status = CLOSED
          /\ notify'[h] # notify[h]) =>
         (orders' = orders /\ ledger' = ledger /\ profiles' = profiles)]_vars

\* ------------------------------------------------------------------ C8
\* C8: the credits of a profile are never negative.
C8_NonNegative ==
  \A u \in Users : profiles[u] # NoRow => profiles[u].credits >= 0

\* a debit has succeeded and left less than the price of another one
C8_Witness ==
  \E i \in 1..Len(ledger) :
    /\ ledger[i].source = "drawing_generation"
    /\ ledger[i].amount < 0
    /\ \E a \in ModelCredits : profiles[ledger[i].user_id].credits < a

\* ------------------------------------------------------------------ C9
\* C9: an Applied settlement of a Pending order sets the order to Success,
\* raises the user's credits by the product's credits over the balance before
\* the callback and appends one "recharge" entry; a replayed callback
\* changes neither the balance nor the ledger.
C9_EndToEnd ==
  [][/\ \A h \in Handlers :
         (notify[h].pc = "commit" /\ notify[h].ord.status = PENDING
            /\ notify'[h].pc = "idle" /\ notify'[h].out = "applied") =>
           LET ord == notify[h].ord
               u == ord.user_id
           IN  /\ orders'[ord.id].status = SUCCESS
               /\ profiles'[u].credits =
                    profiles[u].credits + PRODUCT_CONFIG[ord.product].credits
               /\ Len(ledger') = Len(ledger) + 1
               /\ ledger'[Len(ledger')].source = "recharge"
     /\ \A h \in Handlers :
         (notify[h].pc = "idle" /\ notify'[h] # notify[h]
            /\ notify'[h].out = "already") =>
           (profiles' = profiles /\ ledger' = ledger)]_vars

\* ----------------------------------------------------------------- C10
\* a correctly signed callback for a Pending order whose amount, rounded to
\* cents, is not the order's
Mismatch(p) ==
  /\ RequiredParams \subseteq p.keys
  /\ p.sign = generate_md5_sign(p, MERCHANT_KEY)
  /\ p.out_trade_no \in OrderIds
  /\ IsPending(p.out_trade_no)
  /\ (p.money + 5) \div 10 # orders[p.out_trade_no].money

\* C10: a correctly signed callback whose amount differs from the order's
\* after rounding to cents is answered "fail"; the order stays Pending and
\* neither the ledger nor a profile changes.
C10_MismatchRejected ==
  [][\A h \in Handlers :
       (notify[h].pc = "idle" /\ notify'[h] # notify[h]
          /\ Mismatch(notify'[h].req)) =>
         /\ notify'[h].pc = "idle"
         /\ notify'[h].ack = "fail"
         /\ orders' = orders
         /\ ledger' = ledger
         /\ profiles' = profiles
         /\ grants' = grants]_vars

C10_Witness ==
  \E h \in Handlers :
    /\ notify[h].out = "mismatch"
    /\ notify[h].ack = "fail"
    /\ notify[h].req.money = 18000
    /\ IsPending(notify[h].req.out_trade_no)
    /\ orders[notify[h].req.out_trade_no].money = 1890
    /\ ledger = <<>>

\* ----------------------------------------------------------------- C11
\* a correctly signed callback for a Pending order with the order's amount
\* whose trade status is not the success sentinel
NotSuccess(p) ==
  /\ RequiredParams \subseteq p.keys
  /\ p.sign = generate_md5_sign(p, MERCHANT_KEY)
  /\ p.out_trade_no \in OrderIds
  /\ IsPending(p.out_trade_no)
  /\ (p.money + 5) \div 10 = orders[p.out_trade_no].money
  /\ p.trade_status # "TRADE_SUCCESS"

\* C11: a correctly signed callback with matching amount for a Pending order
\* whose trade status is not TRADE_SUCCESS is answered "success" and changes
\* neither the order (status, pending flag) nor the ledger, a balance or a
\* membership.
C11_AckWithoutEffect ==
  [][\A h \in Handlers :
       (notify[h].pc = "idle" /\ notify'[h] # notify[h]
          /\ NotSuccess(notify'[h].req)) =>
         /\ notify'[h].pc = "idle"
         /\ notify'[h].ack = "success"
         /\ orders' = orders
         /\ ledger' = ledger
         /\ profiles' = profiles
         /\ grants' = grants]_vars

C11_Witness ==
  \E h \in Handlers :
    /\ notify[h].out = "notsuccess"
    /\ notify[h].ack = "success"
    /\ notify[h].req.trade_status = "WAIT_BUYER_PAY"
    /\ IsPending(notify[h].req.out_trade_no)
    /\ notify[h].req.money = OrderMills(orders[notify[h].req.out_trade_no].money)

\* ----------------------------------------------------------------- C12
\* a callback that misses a required parameter, or whose signature is not
\* the one the merchant key gives, or whose order number matches no order
Invalid(p) ==
  \/ ~(RequiredParams \subseteq p.keys)
  \/ p.sign = NoSign
  \/ p.sign # generate_md5_sign(p, MERCHANT_KEY)
  \/ p.out_trade_no \notin OrderIds
  \/ orders[p.out_trade_no] = NoRow

\* C12: a callback missing a required parameter, or with a signature that
\* does not verify, or for an unknown order number is answered "fail" and
\* changes no order, ledger entry, balance or membership.
C12_ValidationPure ==
  [][\A h \in Handlers :
       (notify[h].pc = "idle" /\ notify'[h] # notify[h]
          /\ Invalid(notify'[h].req)) =>
         /\ notify'[h].pc = "idle"
         /\ notify'[h].ack = "fail"
         /\ orders' = orders
         /\ ledger' = ledger
         /\ profiles' = profiles
         /\ grants' = grants]_vars

\* a forged callback with the right amount for a Pending order was rejected
C12_Witness ==
  \E h \in Handlers :
    /\ notify[h].out = "badsign"
    /\ notify[h].ack = "fail"
    /\ notify[h].req.sign.key = OtherKey
    /\ IsPending(notify[h].req.out_trade_no)
    /\ notify[h].req.money = OrderMills(orders[notify[h].req.out_trade_no].money)
    /\ ledger = <<>>

\* ----------------------------------------------------------------- C13
\* C13: every handled callback ends with the response "success" or "fail",
\* and a callback whose settlement raised ends with "fail".
C13_AlwaysResponds ==
  /\ [](\A h \in Handlers :
          (notify[h].pc = "idle" /\ notify[h].out # "none") =>
            /\ notify[h].ack \in {"success", "fail"}
            /\ notify[h].out = "error" => notify[h].ack = "fail")
  /\ \A h \in Handlers : (notify[h].pc # "idle") ~> (notify[h].pc = "idle")

\* a settlement raised and was answered "fail"
C13_Witness ==
  \E h \in Handlers :
    /\ notify[h].pc = "idle"
    /\ notify[h].out = "error"
    /\ notify[h].ack = "fail"

\* ----------------------------------------------------------------- C14
\* the membership of a profile is active at time t
Active(profile, t) ==
  profile.membership_expires_at # None /\ profile.membership_expires_at > t

\* the tier of a profile at time t, an expired membership counting as tier 0
EffectiveTier(profile, t) ==
  IF profile.membership_expires_at # None /\ profile.membership_expires_at <= t
    THEN 0 ELSE profile.membership_type

\* a grant has just been asked for a user who has a profile
Granted == grant' # grant /\ grant'.before # NoRow

\* C14: a grant of a tier strictly lower than the user's effective tier (the
\* stored tier unless the membership has expired) leaves the stored tier and
\* the expiry unchanged and raises no error.
C14_NoDowngrade ==
  [][(/\ Granted
      /\ grant'.membership_type < EffectiveTier(grant'.before, grant'.at)) =>
       /\ grant'.returned = "profile"
       /\ profiles'[grant'.user].membership_type = grant'.before.membership_type
       /\ profiles'[grant'.user].membership_expires_at =
            grant'.before.membership_expires_at]_vars

\* tier 0 or 1 was asked for an active tier-2 user
C14_Witness ==
  /\ grant.before # NoRow
  /\ grant.before.membership_type = 2
  /\ grant.before.membership_expires_at > grant.at
  /\ grant.membership_type < 2
  /\ profiles[grant.user] = grant.before

\* ----------------------------------------------------------------- C15
\* C15: a grant of the effective tier or of a higher one sets the expiry to the
\* existing expiry + days when the membership is active, and to now + days
\* when it is expired or absent.
C15_AdditiveExpiry ==
  [][(/\ Granted
      /\ grant'.membership_type >= EffectiveTier(grant'.before, grant'.at)) =>
       profiles'[grant'.user].membership_expires_at =
         (IF Active(grant'.before, grant'.at)
            THEN grant'.before.membership_expires_at + grant'.days * Day
            ELSE grant'.at + grant'.days * Day)]_vars

\* tier 1 was renewed while active, ten days or more after it was granted
C15_Witness ==
  /\ grant.before # NoRow
  /\ grant.before.membership_type = 1
  /\ grant.membership_type = 1
  /\ grant.before.membership_expires_at > grant.at
  /\ grant.before.membership_expires_at < grant.at + grant.days * Day
  /\ profiles[grant.user].membership_expires_at =
       grant.before.membership_expires_at + grant.days * Day

\* ----------------------------------------------------------------- C16
\* a user without a membership: no profile yet, or the default one
Fresh(profile) ==
  \/ profile = NoRow
  \/ profile.membership_type = 0 /\ profile.membership_expires_at = None

\* C16: a grant of tier 1 for 30 days to a fresh user, with or without a
\* profile, yields a profile with tier 1 and expiry now + 30 days.
C16_FreshGrant ==
  [][(/\ grant' # grant
      /\ grant'.membership_type = 1
      /\ grant'.days = 30
      /\ Fresh(grant'.before)) =>
       /\ profiles'[grant'.user] # NoRow
       /\ profiles'[grant'.user].membership_type = 1
       /\ profiles'[grant'.user].membership_expires_at = grant'.at + 30 * Day]_vars

\* ----------------------------------------------------------------- C17
\* the tier of a product's membership level
MembershipTier(level) ==
  IF level = "advanced" THEN 1 ELSE IF level = "professional" THEN 2 ELSE 0

\* C17: an Applied settlement of a Pending order whose product defines a
\* membership leaves a user who had no active membership with the product's tier and
\* the expiry now + days.
C17_MembershipGranted ==
  [][\A h \in Handlers :
       LET ord == notify[h].ord
           membership == PRODUCT_CONFIG[ord.product].membership
       IN  (/\ notify[h].pc = "commit"
            /\ ord.status = PENDING
            /\ notify'[h].pc = "idle"
            /\ notify'[h].out = "applied"
            /\ membership # NoMembership
            /\ ~Active(profiles[ord.user_id], now)) =>
             /\ profiles'[ord.user_id].membership_type =
                  MembershipTier(membership.level)
             /\ profiles'[ord.user_id].membership_expires_at =
                  now + membership.days * Day]_vars

\* ----------------------------------------------------------------- C18
\* the user has a Pending order created within the last five minutes
HasRecentPending(u) ==
  \E o \in OrderIds :
    /\ orders[o] # NoRow
    /\ orders[o].user_id = u
    /\ orders[o].status = PENDING
    /\ now - orders[o].created_at <= FiveMinutes

C19_FailedCreateCloses ==
  [][\A c \in Creators :
       (/\ creator[c].pc = "call"
        /\ creator'[c].pc = "idle"
        /\ creator'[c].out # "created"
        /\ orders'[creator[c].order.id] # NoRow) =>
         orders'[creator[c].order.id].status = CLOSED]_vars

\* ----------------------------------------------------------------- C20
\* C20: the sweep removes no order that has been settled, and a settlement
\* that applies credit leaves its order in the table with status Success, so
\* that every "recharge" entry refers to an existing Success order.
C20_SweepSparesSettled ==
  [][/\ (sweep.pc = "delete" /\ sweep'.pc = "idle") =>
          \A o \in OrderIds :
            (orders[o] # NoRow /\ orders[o].status = SUCCESS) =>
              (orders'[o] # NoRow /\ orders'[o].status = SUCCESS)
     /\ \A h \in Handlers :
          (notify[h].pc = "commit" /\ notify'[h].pc = "idle"
             /\ notify'[h].out = "applied") =>
            /\ orders'[notify[h].ord.id] # NoRow
            /\ orders'[notify[h].ord.id].status = SUCCESS]_vars

\* ----------------------------------------------------------------- C21
\* C21: a change of the dict that leaves its signed pairs as they were (the
\* items in another insertion order; "sign", "sign_type" or an empty-valued
\* item added, removed or altered) leaves generate_md5_sign's result as it
\* was.
C21_Canonical ==
  [][(signing'.params # signing.params
        /\ SignedPairs(signing'.params) = SignedPairs(signing.params)) =>
       signing'.calculated_sign = signing.calculated_sign]_vars

\* b was inserted before a, with a stale signature and an empty item, and
\* the signature is the one of a=1&b=2
C21_Witness ==
  /\ Len(signing.params) = 3
  /\ signing.params[1] = [key |-> "b", value |-> Str(<<"2">>)]
  /\ signing.params[2].key = "sign"
  /\ signing.params[3] = [key |-> "a", value |-> Str(<<"1">>)]
  /\ signing.calculated_sign =
       HexDigest(<<"a", "=", "1", "&", "b", "=", "2", "k", "e", "y">>)

\* ----------------------------------------------------------------- C28
\* the signature last put in the dict was made with the merchant key and is
\* still the dict's "sign" item
CarriesSign ==
  /\ signing.signed.key = MERCHANT_KEY
  /\ Get(signing.params, "sign", Str(<<>>)) = signing.signed.sign

\* the dict has no "sign" item, or an empty one
Unsigned == Get(signing.params, "sign", Str(<<>>)) \in {NoneValue, Str(<<>>)}

\* a key that was signed has another value in the dict
ValueDiffers ==
  \E x \in SignedPairs(signing.params), y \in signing.signed.pairs :
    x[1] = y[1] /\ x[2] # y[2]

\* the value of one signed key has changed, every other signed pair is as
\* it was signed
OneValueDiffers ==
  \E x \in SignedPairs(signing.params), y \in signing.signed.pairs :
    /\ x[1] = y[1] /\ x[2] # y[2]
    /\ SignedPairs(signing.params) \ {x} = signing.signed.pairs \ {y}

\* C28: a dict that carries the signature made of its signed pairs with the
\* merchant key, in lower or upper case, verifies; a dict without a "sign"
\* item or with an empty one does not; a dict in which the value of one
\* signed key differs from the signed one, the other pairs being as they were
\* signed, does not.
C28_RoundTrip ==
  /\ (CarriesSign /\ SignedPairs(signing.params) = signing.signed.pairs) =>
       signing.verified
  /\ Unsigned => ~signing.verified
  /\ (CarriesSign /\ OneValueDiffers) => ~signing.verified

\* a dict signed in upper case verifies after a reordering; then one of its
\* values is changed
C28_Witness ==
  /\ CarriesSign
  /\ signing.signed.sign.upper
  /\ signing.signed.pairs = {<<"a", Str(<<"1">>)>>, <<"b", Str(<<"2">>)>>}
  /\ OneValueDiffers
  /\ ~signing.verified

\* C28 as stated: verification is false whenever a signed key has a value
\* other than the one that was signed.
C28_TamperDetected ==
  /\ (CarriesSign /\ SignedPairs(signing.params) = signing.signed.pairs) =>
       signing.verified
  /\ Unsigned => ~signing.verified
  /\ (CarriesSign /\ ValueDiffers) => ~signing.verified

\* ----------------------------------------------------------------- C22
\* C22: of two consecutive ledger entries of a user, in append order, the
\* later one's balance_after is the earlier one's balance_after plus the
\* later one's amount.
C22_LedgerChain ==
  \A u \in Users :
    \A i \in 1..(Len(EntriesOf(u)) - 1) :
      EntriesOf(u)[i + 1].balance_after =
        EntriesOf(u)[i].balance_after + EntriesOf(u)[i + 1].amount

\* ----------------------------------------------------------------- C23
\* C23: a debit that commits while other requests write the same user's
\* balance loses no update: it leaves the committed balance lowered by its
\* amount, and it succeeds only if the committed balance covers the amount.
C23_NoLostUpdate ==
  [][(debit.pc = "write" /\ debit'.pc = "idle") =>
       /\ profiles'[debit.user].credits =
            profiles[debit.user].credits - debit.amount
       /\ profiles[debit.user].credits >= debit.amount]_vars

\* ----------------------------------------------------------------- C24
\* C24: a grant to a user whose expiry is null or not later than now sets
\* the tier to the requested tier and the expiry to now + days, whatever
\* tier is stored.
C24_ExpiredCountsAsNone ==
  [][(Granted /\ ~Active(grant'.before, grant'.at)) =>
       /\ profiles'[grant'.user].membership_type = grant'.membership_type
       /\ profiles'[grant'.user].membership_expires_at =
            grant'.at + grant'.days * Day]_vars

\* ----------------------------------------------------------------- C25
\* C25: every stored order has unique_pending_flag 0 exactly when its status
\* is Pending and its own id otherwise, and every step that takes a stored
\* order away from Pending sets the flag to the order's id.
C25_PendingFlag ==
  /\ [](\A o \in OrderIds :
          orders[o] # NoRow =>
            /\ orders[o].unique_pending_flag = 0 <=> orders[o].status = PENDING
            /\ orders[o].status # PENDING => orders[o].unique_pending_flag = o)
  /\ [][\A o \in OrderIds :
          (IsPending(o) /\ orders'[o] # NoRow /\ orders'[o].status # PENDING) =>
            orders'[o].unique_pending_flag = o]_vars

\* one order has been closed and another one settled
C25_Witness ==
  \E o1, o2 \in OrderIds :
    /\ orders[o1] # NoRow /\ orders[o2] # NoRow
    /\ orders[o1].status = CLOSED /\ orders[o1].unique_pending_flag = o1
    /\ orders[o2].status = SUCCESS /\ orders[o2].unique_pending_flag = o2

\* ----------------------------------------------------------------- C26
\* the orders a run of the sweep removes
Removed == {o \in OrderIds : orders[o] # NoRow /\ orders'[o] = NoRow}

\* C26: a run of the sweep removes only orders that are Pending and were
\* created before the time of the run (older than any cutoff), leaves every
\* other order unchanged, and returns the number of orders it removed.
C26_SweepFrame ==
  [][(sweep.pc = "delete" /\ sweep'.pc = "idle") =>
       /\ \A o \in OrderIds :
            IF IsPending(o) /\ orders[o].created_at < now
              THEN orders'[o] \in {orders[o], NoRow}
              ELSE orders'[o] = orders[o]
       /\ sweep'.deleted_count = Cardinality(Removed)]_vars

\* ----------------------------------------------------------------- C27
\* C27: a request of update_user_assets that succeeds commits the profile
\* change, the admin_adjustment entry when the credits changed, and the
\* audit row; one that raises commits none of them; one that is rejected
\* (negative credits or free usages, a tier outside 0..2) changes neither
\* the profile nor the ledger and writes no audit row.
C27_AtomicWithAudit ==
  [][admin' # admin =>
       LET u == admin'.user
           update_data == admin'.update_data
           none == /\ profiles' = profiles
                   /\ ledger' = ledger
                   /\ admin'.log = NoRow
       IN  profiles[u] # NoRow =>
             /\ ~ValidUpdateData(update_data) =>
                  admin'.status = "rejected" /\ none
             /\ admin'.status \in {"rejected", "failed"} => none
             /\ admin'.status = "ok" =>
                  /\ profiles'[u] = UpdatedProfile(profiles[u], update_data)
                  /\ admin'.log # NoRow
                  /\ admin'.log.before_data = AssetData(profiles[u])
                  /\ admin'.log.after_data = AssetData(profiles'[u])
                  /\ IF profiles'[u].credits # profiles[u].credits
                       THEN /\ Len(ledger') = Len(ledger) + 1
                            /\ ledger'[Len(ledger')].source = "admin_adjustment"
                            /\ ledger'[Len(ledger')].amount =
                                 profiles'[u].credits - profiles[u].credits
                       ELSE ledger' = ledger]_vars

\* a request that changed credits and tier was committed with its entry and
\* its audit row, and a later one raised while writing its audit row
C27_Witness ==
  /\ admin.status = "failed"
  /\ admin.fail = "audit"
  /\ admin.log = NoRow
  /\ \E i \in 1..Len(ledger) : ledger[i].source = "admin_adjustment"
  /\ profiles[admin.user].membership_type = 2
  /\ "credits" \in DOMAIN admin.update_data
  /\ admin.update_data.credits # profiles[admin.user].credits

\* ----------------------------------------------------------------- C29
\* C29: a consume_credits call that finds the balance below the amount
\* raises, adds no ledger entry and leaves the balance as it was; a call
\* that succeeds adds exactly one entry, with the negated amount and with
\* balance_after = old balance - amount, which is also the new balance.
OldBalance(u) == IF profiles[u] = NoRow THEN DefaultCredits ELSE profiles[u].credits

C29_DebitOutcome ==
  [][\A u \in Users, amount \in ModelCredits :
       ConsumeCredits(u, amount) =>
         IF OldBalance(u) < amount
           THEN /\ debit'.pc = "raised"
                /\ ledger' = ledger
                /\ profiles'[u].credits = OldBalance(u)
           ELSE /\ debit'.pc = "returned"
                /\ Len(ledger') = Len(ledger) + 1
                /\ SubSeq(ledger', 1, Len(ledger)) = ledger
                /\ ledger'[Len(ledger')].user_id = u
                /\ ledger'[Len(ledger')].amount = -amount
                /\ ledger'[Len(ledger')].balance_after = OldBalance(u) - amount
                /\ profiles'[u].credits = OldBalance(u) - amount]_vars

\* a call was refused with a balance between zero and the amount, after an
\* earlier call had succeeded
C29_Witness ==
  /\ debit.pc = "raised"
  /\ debit.credits > 0
  /\ debit.credits < debit.amount
  /\ profiles[debit.user].credits = debit.credits
  /\ \E i \in 1..Len(ledger) : ledger[i].source = "drawing_generation"

\* ----------------------------------------------------------------- C30
\* C30: the generation_refund credits added for a task never exceed the
\* credits debited when the task was created, and a task in status SUCCESS
\* has not been refunded. A refund entry carries no source_id
\* (handle_task_failure, lines 472-480), so the ledger is read per user:
\* the refunds of a user never exceed the credits_used of the user's tasks
\* that are not in status SUCCESS.
RECURSIVE RefundTotal(_, _)
RefundTotal(s, u) ==
  IF s = <<>> THEN 0
  ELSE (IF s[1].user_id = u /\ s[1].source = "generation_refund"
          THEN s[1].amount ELSE 0) + RefundTotal(Tail(s), u)

RECURSIVE Refundable(_, _)
Refundable(n, u) ==
  IF n = 0 THEN 0
  ELSE (IF tasks[n] # NoRow /\ tasks[n].user_id = u /\ tasks[n].status # "SUCCESS"
          THEN tasks[n].credits_used ELSE 0) + Refundable(n - 1, u)

C30_RefundAtMostOnce ==
  \A u \in Users : RefundTotal(ledger, u) <= Refundable(MaxTasks, u)

====
